---- MODULE Spec2Model ----
(***************************************************************************)
(* A model of node-toml-test's launcher (src/index.js, class TomlTest):    *)
(* the check for the cached binary, the proxy-aware fetch with manual      *)
(* redirects, the streamed write and decompression, chmod, the failure     *)
(* cleanup and the spawn of the binary.                                    *)
(*                                                                         *)
(* Strings the code inspects (proxy addresses) are sequences of one-       *)
(* character strings, so that the regular expressions /^http/i and         *)
(* /^socks/i are computed, not assumed.                                    *)
(***************************************************************************)
EXTENDS Integers, Sequences, FiniteSets, TLC

VARIABLES
  env,        \* process.env: the six proxy variables
  fs,         \* the cache directory: dist, the binary file, the compressed file
  fs0,        \* the cache directory as it was when the invocation started
  pc,         \* each invocation's position in run()
  curUrl,     \* the URL createFetch was last called with
  requests,   \* the requests fetch() has issued: <<[url, agent]>>
  responses,  \* the responses fetch() has resolved with: <<[status, location]>>
  streams,    \* the streams download() and decompress() opened
  err,        \* the error caught by ensureBinaryFileExists
  log,        \* the observable events of the invocation, in order
  existed,    \* what existsSync saw, and whether the file was there
  downloads,  \* how many times download() was started
  chmodArg,   \* the mode passed to fs.chmod
  exitCode,   \* the status passed to process.exit
  spawned,    \* the arguments of spawn()
  selected,   \* the last result of getAgent (specification SpecAgent)
  server,     \* how the download server answers: "finite", "direct" or "loop"
  resolver    \* the runtime's report and the file name computed from it (SpecNames)

vars == << env, fs, fs0, pc, curUrl, requests, responses, streams, err, log,
           existed, downloads, chmodArg, exitCode, spawned, selected, server, resolver >>

Procs == {1, 2}

\* ------------------------------------------------------------------------
\* Bounds of the model

\* The longest redirect chain the modelled server answers with.
MaxHops == 2

\* ------------------------------------------------------------------------
\* Strings

Str_http == << "h", "t", "t", "p" >>
Str_socks == << "s", "o", "c", "k", "s" >>

\* String.prototype.toLowerCase on one character, for the letters used here.
LowerChar(c) ==
  CASE c = "H" -> "h"
    [] c = "T" -> "t"
    [] c = "P" -> "p"
    [] c = "S" -> "s"
    [] c = "O" -> "o"
    [] c = "C" -> "c"
    [] c = "K" -> "k"
    [] OTHER -> c

\* /^prefix/i.test(s)
TestPrefixI(prefix, s) ==
  /\ Len(s) >= Len(prefix)
  /\ \A i \in 1..Len(prefix) : LowerChar(s[i]) = prefix[i]

\* JavaScript truthiness of a string (undefined and "" are both falsy).
Truthy(s) == s # << >>

\* a || b
OrElse(a, b) == IF Truthy(a) THEN a ELSE b

\* ------------------------------------------------------------------------
\* Proxy agents

NoAgent == [type |-> "none", proxy |-> << >>]

NewAgent(t, proxyUrl) == [type |-> t, proxy |-> proxyUrl]

\* createHttpProxyAgent(), lines 171-182
createHttpProxyAgent(e) ==
  LET proxyUrl == OrElse(e.http_proxy, e.HTTP_PROXY)
  IN  IF ~Truthy(proxyUrl) THEN NoAgent
      ELSE IF TestPrefixI(Str_http, proxyUrl) THEN NewAgent("HttpProxyAgent", proxyUrl)
      ELSE IF TestPrefixI(Str_socks, proxyUrl) THEN NewAgent("SocksProxyAgent", proxyUrl)
      ELSE NoAgent

\* createHttpsProxyAgent(), lines 184-195
createHttpsProxyAgent(e) ==
  LET proxyUrl == OrElse(e.https_proxy, e.HTTPS_PROXY)
  IN  IF ~Truthy(proxyUrl) THEN NoAgent
      ELSE IF TestPrefixI(Str_http, proxyUrl) THEN NewAgent("HttpsProxyAgent", proxyUrl)
      ELSE IF TestPrefixI(Str_socks, proxyUrl) THEN NewAgent("SocksProxyAgent", proxyUrl)
      ELSE NoAgent

\* A faulty createAllProxyAgent: the target protocol is not looked at.
createAllProxyAgent_IgnoresProtocol(e, protocol) ==
  LET proxyUrl == OrElse(e.all_proxy, e.ALL_PROXY)
  IN  IF ~Truthy(proxyUrl) THEN NoAgent
      ELSE IF TestPrefixI(Str_http, proxyUrl)
        THEN NewAgent("HttpProxyAgent", proxyUrl)
      ELSE IF TestPrefixI(Str_socks, proxyUrl) THEN NewAgent("SocksProxyAgent", proxyUrl)
      ELSE NoAgent

\* createAllProxyAgent(protocol), lines 197-212
createAllProxyAgent(e, protocol) ==
  LET proxyUrl == OrElse(e.all_proxy, e.ALL_PROXY)
  IN  IF ~Truthy(proxyUrl) THEN NoAgent
      ELSE IF TestPrefixI(Str_http, proxyUrl)
        THEN IF protocol = "http:" THEN NewAgent("HttpProxyAgent", proxyUrl)
             ELSE IF protocol = "https:" THEN NewAgent("HttpsProxyAgent", proxyUrl)
             ELSE NoAgent
      ELSE IF TestPrefixI(Str_socks, proxyUrl) THEN NewAgent("SocksProxyAgent", proxyUrl)
      ELSE NoAgent

\* A faulty getAgent: the catch-all is asked before the scheme-specific variable.
getAgent_CatchAllFirst(e, url) ==
  LET agent == createAllProxyAgent(e, url.protocol)
  IN  IF agent # NoAgent THEN agent
      ELSE IF url.protocol = "http:" THEN createHttpProxyAgent(e)
      ELSE IF url.protocol = "https:" THEN createHttpsProxyAgent(e)
      ELSE NoAgent

\* getAgent(url): `agent` starts undefined; null and undefined are both falsy.
getAgent(e, url) ==
  LET agent == IF url.protocol = "http:" THEN createHttpProxyAgent(e)
               ELSE IF url.protocol = "https:" THEN createHttpsProxyAgent(e)
               ELSE NoAgent
  IN  IF agent = NoAgent THEN createAllProxyAgent(e, url.protocol) ELSE agent

\* ------------------------------------------------------------------------
\* process.env

\* Values a proxy variable is given: unset (or empty), an http-style address,
\* one written in upper case, a SOCKS address, and an address with no scheme.
ProxyUnset == << >>
ProxyHttp == << "h", "t", "t", "p", ":", "p" >>
ProxyHttpUpper == << "H", "T", "T", "P", "S", ":", "q" >>
ProxySocks == << "s", "o", "c", "k", "s", "5", ":", "r" >>
ProxyBare == << "p", ":", "1" >>

ProxyValues == { ProxyUnset, ProxyHttp, ProxyHttpUpper, ProxySocks, ProxyBare }

AllEnvs ==
  [ http_proxy : ProxyValues, HTTP_PROXY : ProxyValues,
    https_proxy : ProxyValues, HTTPS_PROXY : ProxyValues,
    all_proxy : ProxyValues, ALL_PROXY : ProxyValues ]

\* The environments the launcher is run in: no proxy, a proxy per scheme, and
\* a catch-all proxy alone.
RunEnvs ==
  { e \in AllEnvs :
      /\ e.http_proxy = ProxyUnset
      /\ e.https_proxy = ProxyUnset
      /\ e.all_proxy = ProxyUnset
      /\ << e.HTTP_PROXY, e.HTTPS_PROXY, e.ALL_PROXY >> \in
           { << ProxyUnset, ProxyUnset, ProxyUnset >>,
             << ProxyHttp, ProxySocks, ProxyUnset >>,
             << ProxyUnset, ProxyUnset, ProxyHttpUpper >> } }

\* ------------------------------------------------------------------------
\* URLs

MkUrl(protocol, host, path) == [protocol |-> protocol, host |-> host, path |-> path]

\* this.url: binaryHost joined with v{version}/{compressedFilename}
StartUrl == MkUrl("https:", "github", "/toml-test.gz")

\* URLs getAgent is asked about in SpecAgent: any protocol.
AgentUrls == { MkUrl(pr, "github", "/asset") : pr \in { "http:", "https:", "ftp:" } }

\* The Location header of a response: an absolute URL, an absolute path, or
\* text that new URL() rejects.
NoUrl == [protocol |-> "none", host |-> "none", path |-> "none"]
NoLocation == [kind |-> "none", url |-> NoUrl, path |-> "none"]
LocAbs(u) == [kind |-> "abs", url |-> u, path |-> "none"]
LocPath(pa) == [kind |-> "path", url |-> NoUrl, path |-> pa]
LocInvalid == [kind |-> "invalid", url |-> NoUrl, path |-> "none"]

Locations ==
  { LocAbs(MkUrl("http:", "cdn", "/asset")), LocPath("/mirror"), LocInvalid }

\* new URL(location, base) throws a TypeError on text that is no URL.
UrlThrows(loc) == loc.kind = "invalid"

\* A faulty resolution: against this.url, not the response's URL.
ResolveUrl_AgainstStart(loc, base) ==
  IF loc.kind = "abs" THEN loc.url
  ELSE [StartUrl EXCEPT !.path = loc.path]

\* new URL(location, base)
ResolveUrl(loc, base) ==
  IF loc.kind = "abs" THEN loc.url
  ELSE [base EXCEPT !.path = loc.path]

Statuses == { 200, 301, 302, 307, 404 }

\* A faulty test: 302 is not followed.
IsRedirect_Only301(status) == status = 301

\* res.status === 301 || res.status === 302
IsRedirect(status) == status = 301 \/ status = 302

\* A faulty test: every status below 400 passes.
IsOk_Below400(status) == status >= 200 /\ status <= 399

\* res.ok (node-fetch: status in 200..299)
IsOk(status) == status >= 200 /\ status <= 299

\* ------------------------------------------------------------------------
\* Files

NoFile == [content |-> "none", mode |-> 0]

\* The mode of a file created by createWriteStream: 0o666 under umask 0o022.
DefaultMode == (6 * 64) + (4 * 8) + 4

\* fs.chmod(this.binaryFilePath, 755)
ChmodMode == 755

\* A faulty check: only a complete file counts.
ExistsSync_CompleteOnly(f) == f.content = "complete"

\* existsSync(path)
ExistsSync(f) == f # NoFile

\* chmod keeps the twelve permission bits of the mode.
ModeBits(m) == m % 4096

\* The cache directory an invocation can start from: a fresh install, one
\* left by a successful run (the .gz file is never deleted), one left by a
\* failed run after cleanup, one where the .gz survived its cleanup, and one
\* left by a run that was interrupted while decompressing.
InitialFs ==
  { [dist |-> FALSE, bin |-> NoFile, gz |-> NoFile],
    [dist |-> TRUE, bin |-> NoFile, gz |-> NoFile],
    [dist |-> TRUE, bin |-> [content |-> "complete", mode |-> ModeBits(ChmodMode)],
                    gz |-> [content |-> "gzip", mode |-> DefaultMode]],
    [dist |-> TRUE, bin |-> NoFile, gz |-> [content |-> "partial", mode |-> DefaultMode]],
    [dist |-> TRUE, bin |-> [content |-> "partial", mode |-> DefaultMode],
                    gz |-> [content |-> "gzip", mode |-> DefaultMode]] }

\* ------------------------------------------------------------------------
\* Streams, errors, process state

NoStreams == [cws |-> "none", rs |-> "none", gunzip |-> "none", bws |-> "none"]

NoErr == [thrown |-> FALSE, fetchError |-> FALSE, status |-> 0, stage |-> "none"]

MkErr(isFetchError, status, stage) ==
  [thrown |-> TRUE, fetchError |-> isFetchError, status |-> status, stage |-> stage]

NoSpawn == [file |-> "none", argv |-> << >>, args |-> << >>, stdio |-> "none"]

BinaryFilePath == "dist/toml-test"

\* process.argv of an invocation
ArgvSamples ==
  { << "node", "cli.js" >>, << "node", "cli.js", "-h" >>,
    << "node", "cli.js", "a.toml", "-h" >> }

\* A faulty shift: drops the last element instead of the first (Array.prototype.pop).
Shift_DropsLast(a) == IF a = << >> THEN a ELSE SubSeq(a, 1, Len(a) - 1)

\* Array.prototype.shift: drops the first element (of an empty array: nothing).
Shift(a) == IF a = << >> THEN a ELSE Tail(a)

\* ------------------------------------------------------------------------
\* The path/URL resolver (lines 28-58)

\* What the runtime reports: package.json's tomlTestVersion, process.platform
\* and process.arch.
Versions == { "1.4.0", "1.5.0" }
Platforms == { "aix", "android", "darwin", "freebsd", "linux", "openbsd", "sunos", "win32" }
Archs == { "arm", "arm64", "ia32", "mips", "ppc64", "riscv64", "s390x", "x64" }

Runtimes == [version : Versions, platform : Platforms, arch : Archs]

\* A faulty getter: win32 is not renamed.
platform_Unchanged(r) == r.platform

\* get platform(), lines 34-39
platform(r) == IF r.platform = "win32" THEN "windows" ELSE r.platform

\* get arch(), lines 41-46
arch(r) == IF r.arch = "x64" THEN "amd64" ELSE r.arch

\* get binaryFilename(), lines 48-54
binaryFilename(r) ==
  LET name == "toml-test-v" \o r.version \o "-" \o platform(r) \o "-" \o arch(r)
  IN  IF platform(r) = "windows" THEN name \o ".ext" ELSE name

\* get compressedFilename(), lines 56-58
compressedFilename(r) == binaryFilename(r) \o ".gz"

NoRuntime == [version |-> "none", platform |-> "none", arch |-> "none"]

NoResolver == [runtime |-> NoRuntime, calls |-> 0, binaryFilename |-> "none"]

\* ------------------------------------------------------------------------
\* The state after construction

InitProc(started, dirs) ==
  /\ fs \in dirs
  /\ fs0 = fs
  /\ pc = [p \in Procs |-> IF p \in started THEN "run" ELSE "off"]
  /\ curUrl = [p \in Procs |-> NoUrl]
  /\ requests = [p \in Procs |-> << >>]
  /\ responses = [p \in Procs |-> << >>]
  /\ streams = [p \in Procs |-> NoStreams]
  /\ err = [p \in Procs |-> NoErr]
  /\ log = [p \in Procs |-> << >>]
  /\ existed = [p \in Procs |-> [checked |-> FALSE, seen |-> FALSE, was |-> FALSE]]
  /\ downloads = [p \in Procs |-> 0]
  /\ chmodArg = [p \in Procs |-> -1]
  /\ exitCode = [p \in Procs |-> -1]
  /\ spawned = [p \in Procs |-> NoSpawn]
  /\ selected = [url |-> NoUrl, agent |-> NoAgent]

\* One invocation of the launcher, against a server whose redirect chains
\* are at most MaxHops long.
Init ==
  /\ env \in RunEnvs
  /\ server = "finite"
  /\ resolver = NoResolver
  /\ InitProc({1}, InitialFs)

\* ------------------------------------------------------------------------
\* Helpers of the actions

Emit(p, events) == log' = [log EXCEPT ![p] = @ \o events]

\* Where control goes when download() throws: the catch block (line 95).
\* A faulty handler: download() is tried again.
OnThrow_Retry == "download"

OnThrow == "unlinkBinary"

\* An exception e propagates out of download() into the catch block.
Throw(p, e) ==
  /\ err' = [err EXCEPT ![p] = e]
  /\ pc' = [pc EXCEPT ![p] = OnThrow]

\* ------------------------------------------------------------------------
\* run() and ensureBinaryFileExists()

\* Lines 78, 87-91: existsSync decides between returning and downloading.
EnsureBinaryFileExists(p) ==
  /\ pc[p] = "run"
  /\ existed' = [existed EXCEPT ![p] =
                   [checked |-> TRUE, seen |-> ExistsSync(fs.bin), was |-> fs.bin # NoFile]]
  /\ IF ExistsSync(fs.bin)
       THEN /\ pc' = [pc EXCEPT ![p] = "spawn"]
            /\ UNCHANGED log
       ELSE /\ pc' = [pc EXCEPT ![p] = "download"]
            /\ Emit(p, << "spinner.start" >>)
  /\ UNCHANGED << env, fs, fs0, curUrl, requests, responses, streams, err,
                  downloads, chmodArg, exitCode, spawned, selected, server, resolver >>

\* Lines 93, 109: download() starts and calls createFetch(this.url).
Download(p) ==
  /\ pc[p] = "download"
  /\ downloads' = [downloads EXCEPT ![p] = @ + 1]
  /\ curUrl' = [curUrl EXCEPT ![p] = StartUrl]
  /\ pc' = [pc EXCEPT ![p] = "fetch"]
  /\ UNCHANGED << env, fs, fs0, requests, responses, streams, err, log, existed,
                  chmodArg, exitCode, spawned, selected, server, resolver >>

\* ------------------------------------------------------------------------
\* createFetch(url)

\* The histories of requests and responses keep the last MaxHops + 1 entries:
\* all of them, unless the server redirects without end.
Push(q, x) == IF Len(q) <= MaxHops THEN Append(q, x) ELSE Append(Tail(q), x)

\* A faulty createFetch: the agent chosen for this.url is used on every hop.
RequestAgent_OfStartUrl(p) == getAgent(env, StartUrl)

\* Line 132: this.getAgent(url), with the url createFetch was called with.
RequestAgent(p) == getAgent(env, curUrl[p])

\* Line 132: fetch(url.href, { agent: this.getAgent(url), redirect: 'manual' })
SendRequest(p) ==
  /\ pc[p] = "fetch"
  /\ requests' = [requests EXCEPT ![p] =
                    Push(@, [url |-> curUrl[p], agent |-> RequestAgent(p)])]
  /\ pc' = [pc EXCEPT ![p] = "await"]
  /\ UNCHANGED << env, fs, fs0, curUrl, responses, streams, err, log, existed,
                  downloads, chmodArg, exitCode, spawned, selected, server, resolver >>

\* Line 132: fetch() rejects (connection refused, proxy unreachable, ...):
\* node-fetch rejects with a FetchError.
RequestFails(p) ==
  /\ pc[p] = "await"
  /\ server # "loop"
  /\ Throw(p, MkErr(TRUE, 0, "request"))
  /\ UNCHANGED << env, fs, fs0, curUrl, requests, responses, streams, log,
                  existed, downloads, chmodArg, exitCode, spawned, selected, server, resolver >>

\* A faulty createFetch: a redirect is followed only while fewer than MaxHops
\* responses have been received.
MayFollow_HopLimit(p) == Len(responses[p]) < MaxHops

\* Lines 133-136: a 301/302 is followed whatever the number of hops before it;
\* createFetch keeps no count.
MayFollow(p) == TRUE

\* Lines 133-140: fetch() resolves with a response. A "finite" server answers
\* at most MaxHops redirects in a row, a "direct" server none, and a "loop"
\* server answers every request with a redirect that can be followed.
Respond(p) ==
  /\ pc[p] = "await"
  /\ \E status \in Statuses :
     \E location \in IF status \in { 301, 302 } THEN Locations ELSE { NoLocation } :
       /\ status \in { 301, 302 } =>
            \/ server = "loop"
            \/ server = "finite" /\ Len(responses[p]) < MaxHops
       /\ server = "loop" => (status \in { 301, 302 } /\ ~UrlThrows(location))
       /\ responses' = [responses EXCEPT ![p] =
                          Push(@, [status |-> status, location |-> location,
                                   url |-> curUrl[p]])]
       /\ IF IsRedirect(status)
            THEN IF UrlThrows(location) \/ ~MayFollow(p)
                   THEN /\ Throw(p, MkErr(FALSE, 0, "location"))
                        /\ UNCHANGED curUrl
                   ELSE /\ curUrl' = [curUrl EXCEPT ![p] = ResolveUrl(location, curUrl[p])]
                        /\ pc' = [pc EXCEPT ![p] = "fetch"]
                        /\ UNCHANGED err
            ELSE IF ~IsOk(status)
                   THEN /\ Throw(p, MkErr(FALSE, status, "status"))
                        /\ UNCHANGED curUrl
                   ELSE /\ pc' = [pc EXCEPT ![p] = "mkdir"]
                        /\ UNCHANGED << curUrl, err >>
  /\ UNCHANGED << env, fs, fs0, requests, streams, log, existed, downloads,
                  chmodArg, exitCode, spawned, selected, server, resolver >>

\* ------------------------------------------------------------------------
\* download(): the compressed file

\* Lines 111, 127-129: fs.mkdir(distPath); its rejection (EEXIST, EACCES) is
\* swallowed.
EnsureDistExists(p) ==
  /\ pc[p] = "mkdir"
  /\ \/ fs' = [fs EXCEPT !.dist = TRUE]
     \/ UNCHANGED fs
  /\ pc' = [pc EXCEPT ![p] = "openws"]
  /\ Emit(p, << "mkdir" >>)
  /\ UNCHANGED << env, fs0, curUrl, requests, responses, streams, err, existed,
                  downloads, chmodArg, exitCode, spawned, selected, server, resolver >>

\* Line 112: createWriteStream(compressedFilePath) opens the file with flag
\* 'w' (create or truncate); a failed open (ENOENT without dist, EACCES) is the
\* stream's 'error', which rejects p (line 117) and destroys the stream.
OpenCompressed(p) ==
  /\ pc[p] = "openws"
  /\ \/ /\ fs.dist
        /\ fs' = [fs EXCEPT !.gz = [content |-> "partial",
                                    mode |-> IF fs.gz = NoFile THEN DefaultMode
                                             ELSE fs.gz.mode]]
        /\ streams' = [streams EXCEPT ![p].cws = "open"]
        /\ pc' = [pc EXCEPT ![p] = "pipe"]
        /\ Emit(p, << "open.gz" >>)
        /\ UNCHANGED err
     \/ /\ streams' = [streams EXCEPT ![p].cws = "closed"]
        /\ Throw(p, MkErr(FALSE, 0, "write"))
        /\ UNCHANGED << fs, log >>
  /\ UNCHANGED << env, fs0, curUrl, requests, responses, existed, downloads,
                  chmodArg, exitCode, spawned, selected, server, resolver >>

\* A faulty download(): the promise resolves as soon as the writer is open.
WriterAtResolve_Open == "open"

\* Line 117, ws.on('finish', resolve): the writer's state when download()
\* goes on to decompress(). All data has been handed to the file; the
\* descriptor is closed later (CloseStream).
WriterAtResolve == "finished"

\* Lines 114-120: res.body.pipe(ws); p resolves on ws 'finish' and rejects on
\* an 'error' of the body or of ws. pipe() does not end or destroy ws when the
\* body fails. What the server sent is a gzip file or something else; whether
\* the body's error is a FetchError is node-fetch's choice.
PipeBody(p) ==
  /\ pc[p] = "pipe"
  /\ \/ \E content \in { "gzip", "garbage" } :
          /\ fs' = [fs EXCEPT !.gz = IF fs.gz = NoFile THEN NoFile
                                     ELSE [fs.gz EXCEPT !.content = content]]
          /\ streams' = [streams EXCEPT ![p].cws = WriterAtResolve]
          /\ pc' = [pc EXCEPT ![p] = "decompress"]
          /\ Emit(p, << "finish.gz" >>)
          /\ UNCHANGED err
     \/ \E isFetchError \in BOOLEAN :
          /\ Throw(p, MkErr(isFetchError, 0, "body"))
          /\ UNCHANGED << fs, streams, log >>
     \/ /\ streams' = [streams EXCEPT ![p].cws = "closed"]
        /\ Throw(p, MkErr(FALSE, 0, "write"))
        /\ UNCHANGED << fs, log >>
  /\ UNCHANGED << env, fs0, curUrl, requests, responses, existed, downloads,
                  chmodArg, exitCode, spawned, selected, server, resolver >>

\* A stream that has finished or ended closes its descriptor afterwards, on
\* its own (autoDestroy / autoClose), while the program goes on.
CloseStream(p) ==
  /\ pc[p] \notin { "off", "exited" }
  /\ \E s \in { "cws", "rs", "bws" } :
       /\ streams[p][s] \in { "finished", "ended" }
       /\ streams' = [streams EXCEPT ![p][s] = "closed"]
  /\ UNCHANGED << env, fs, fs0, pc, curUrl, requests, responses, err, log, existed,
                  downloads, chmodArg, exitCode, spawned, selected, server, resolver >>

\* ------------------------------------------------------------------------
\* decompress()

\* Lines 144-146: the three streams are created; the reader needs the
\* compressed file, the writer creates or truncates the binary file.
Decompress(p) ==
  /\ pc[p] = "decompress"
  /\ \/ /\ fs.gz # NoFile
        /\ fs.dist
        /\ fs' = [fs EXCEPT !.bin = [content |-> "partial",
                                     mode |-> IF fs.bin = NoFile THEN DefaultMode
                                              ELSE fs.bin.mode]]
        /\ streams' = [streams EXCEPT ![p].rs = "open", ![p].gunzip = "open",
                                      ![p].bws = "open"]
        /\ pc' = [pc EXCEPT ![p] = "inflate"]
        /\ Emit(p, << "decompress" >>)
        /\ UNCHANGED err
     \/ \* the writer's open fails (line 151)
        /\ streams' = [streams EXCEPT ![p].rs = IF fs.gz # NoFile THEN "open" ELSE "closed",
                                      ![p].gunzip = "open", ![p].bws = "closed"]
        /\ Throw(p, MkErr(FALSE, 0, "decompress"))
        /\ Emit(p, << "decompress" >>)
        /\ UNCHANGED fs
  /\ UNCHANGED << env, fs0, curUrl, requests, responses, existed, downloads,
                  chmodArg, exitCode, spawned, selected, server, resolver >>

\* Lines 148-155: rs.pipe(gunzip).pipe(ws); p resolves on ws 'finish' and
\* rejects on the first 'error' of any stage. The stage that failed is
\* destroyed; pipe() leaves the other two as they are.
Inflate(p) ==
  /\ pc[p] = "inflate"
  /\ \/ /\ fs.gz.content = "gzip"
        /\ fs' = [fs EXCEPT !.bin = IF fs.bin = NoFile THEN NoFile
                                    ELSE [fs.bin EXCEPT !.content = "complete"]]
        /\ streams' = [streams EXCEPT ![p].rs = "ended", ![p].gunzip = "closed",
                                      ![p].bws = "finished"]
        /\ pc' = [pc EXCEPT ![p] = "chmod"]
        /\ Emit(p, << "finish.bin" >>)
        /\ UNCHANGED err
     \/ \* gunzip rejects the data (line 150)
        /\ fs.gz.content # "gzip"
        /\ streams' = [streams EXCEPT ![p].gunzip = "closed"]
        /\ Throw(p, MkErr(FALSE, 0, "decompress"))
        /\ UNCHANGED << fs, log >>
     \/ \* reading the compressed file fails (line 149)
        /\ streams' = [streams EXCEPT ![p].rs = "closed"]
        /\ Throw(p, MkErr(FALSE, 0, "decompress"))
        /\ UNCHANGED << fs, log >>
     \/ \* writing the binary file fails (line 151)
        /\ streams' = [streams EXCEPT ![p].bws = "closed"]
        /\ Throw(p, MkErr(FALSE, 0, "decompress"))
        /\ UNCHANGED << fs, log >>
  /\ UNCHANGED << env, fs0, curUrl, requests, responses, existed, downloads,
                  chmodArg, exitCode, spawned, selected, server, resolver >>

\* Lines 124, 94: fs.chmod(binaryFilePath, 755), then the spinner succeeds and
\* ensureBinaryFileExists returns. chmod rejects when the file is gone or not
\* the user's.
Chmod(p) ==
  /\ pc[p] = "chmod"
  /\ chmodArg' = [chmodArg EXCEPT ![p] = ChmodMode]
  /\ \/ /\ fs.bin # NoFile
        /\ fs' = [fs EXCEPT !.bin.mode = ModeBits(ChmodMode)]
        /\ pc' = [pc EXCEPT ![p] = "spawn"]
        /\ Emit(p, << "chmod", "spinner.succeed" >>)
        /\ UNCHANGED err
     \/ /\ Throw(p, MkErr(FALSE, 0, "chmod"))
        /\ UNCHANGED << fs, log >>
  /\ UNCHANGED << env, fs0, curUrl, requests, responses, streams, existed,
                  downloads, exitCode, spawned, selected, server, resolver >>

\* Lines 80-83: spawn(binaryFilePath, argv, { stdio: 'inherit' })
Spawn(p) ==
  /\ pc[p] = "spawn"
  /\ \E argv \in ArgvSamples :
       spawned' = [spawned EXCEPT ![p] =
                     [file |-> BinaryFilePath, argv |-> argv,
                      args |-> Shift(Shift(argv)), stdio |-> "inherit"]]
  /\ pc' = [pc EXCEPT ![p] = "spawned"]
  /\ Emit(p, << "spawn" >>)
  /\ UNCHANGED << env, fs, fs0, curUrl, requests, responses, streams, err, existed,
                  downloads, chmodArg, exitCode, selected, server, resolver >>

\* ------------------------------------------------------------------------
\* The catch block of ensureBinaryFileExists

\* A faulty cleanup: only the binary file is removed.
Unlink_BinaryOnly(p, field, name) ==
  \/ /\ field = "bin"
     /\ fs' = [fs EXCEPT ![field] = NoFile]
     /\ Emit(p, << "unlink." \o name >>)
  \/ /\ field # "bin"
     /\ UNCHANGED fs
     /\ Emit(p, << "unlink." \o name \o ".enoent" >>)

\* fs.unlink(path).catch(_ => {}): the file is removed, or unlink rejects
\* (ENOENT when there is no file, EACCES/EPERM otherwise) and the rejection
\* is swallowed.
Unlink(p, field, name) ==
  \/ /\ fs[field] # NoFile
     /\ fs' = [fs EXCEPT ![field] = NoFile]
     /\ Emit(p, << "unlink." \o name >>)
  \/ /\ fs[field] # NoFile
     /\ UNCHANGED fs
     /\ Emit(p, << "unlink." \o name \o ".rejected" >>)
  \/ /\ fs[field] = NoFile
     /\ UNCHANGED fs
     /\ Emit(p, << "unlink." \o name \o ".enoent" >>)

\* Line 96
UnlinkBinary(p) ==
  /\ pc[p] = "unlinkBinary"
  /\ Unlink(p, "bin", "bin")
  /\ pc' = [pc EXCEPT ![p] = "unlinkCompressed"]
  /\ UNCHANGED << env, fs0, curUrl, requests, responses, streams, err, existed,
                  downloads, chmodArg, exitCode, spawned, selected, server, resolver >>

\* Line 97
UnlinkCompressed(p) ==
  /\ pc[p] = "unlinkCompressed"
  /\ Unlink(p, "gz", "gz")
  /\ pc' = [pc EXCEPT ![p] = "report"]
  /\ UNCHANGED << env, fs0, curUrl, requests, responses, streams, err, existed,
                  downloads, chmodArg, exitCode, spawned, selected, server, resolver >>

\* e instanceof FetchError
IsFetchError(e) == e.fetchError

\* Lines 98-103: the help message for a FetchError, the raw error otherwise.
Report(p) ==
  /\ pc[p] = "report"
  /\ IF IsFetchError(err[p])
       THEN Emit(p, << "spinner.fail", "help" >>)
       ELSE Emit(p, << "console.error" >>)
  /\ pc' = [pc EXCEPT ![p] = "exit"]
  /\ UNCHANGED << env, fs, fs0, curUrl, requests, responses, streams, err, existed,
                  downloads, chmodArg, exitCode, spawned, selected, server, resolver >>

\* What follows the report: process.exit(1) (line 104).
\* A faulty handler: no process.exit, control falls through to run().
AfterReport_FallThrough == [next |-> "spawn", code |-> -1]

AfterReport == [next |-> "exited", code |-> 1]

\* Line 104
Exit(p) ==
  /\ pc[p] = "exit"
  /\ exitCode' = [exitCode EXCEPT ![p] = AfterReport.code]
  /\ pc' = [pc EXCEPT ![p] = AfterReport.next]
  /\ UNCHANGED << env, fs, fs0, curUrl, requests, responses, streams, err, log,
                  existed, downloads, chmodArg, spawned, selected, server, resolver >>

\* ------------------------------------------------------------------------
\* The specification of one invocation

Step(p) ==
  \/ EnsureBinaryFileExists(p)
  \/ Download(p)
  \/ SendRequest(p)
  \/ RequestFails(p)
  \/ Respond(p)
  \/ EnsureDistExists(p)
  \/ OpenCompressed(p)
  \/ PipeBody(p)
  \/ CloseStream(p)
  \/ Decompress(p)
  \/ Inflate(p)
  \/ Chmod(p)
  \/ Spawn(p)
  \/ UnlinkBinary(p)
  \/ UnlinkCompressed(p)
  \/ Report(p)
  \/ Exit(p)

Next == \E p \in Procs : Step(p)

Spec == Init /\ [][Next]_vars

\* The catch block runs to its end: each unlink settles, the report is
\* printed and process.exit is called.
FairSpec ==
  /\ Spec
  /\ \A p \in Procs :
       /\ WF_vars(UnlinkBinary(p))
       /\ WF_vars(UnlinkCompressed(p))
       /\ WF_vars(Report(p))
       /\ WF_vars(Exit(p))

\* ------------------------------------------------------------------------
\* getAgent as a function of the environment and the URL (SpecAgent)

InitAgent ==
  /\ env \in AllEnvs
  /\ server = "finite"
  /\ resolver = NoResolver
  /\ InitProc({}, { [dist |-> FALSE, bin |-> NoFile, gz |-> NoFile] })

\* A call of getAgent(url), lines 158-169.
CallGetAgent ==
  /\ \E u \in AgentUrls : selected' = [url |-> u, agent |-> getAgent(env, u)]
  /\ UNCHANGED << env, fs, fs0, pc, curUrl, requests, responses, streams, err, log,
                  existed, downloads, chmodArg, exitCode, spawned, server, resolver >>

NextAgent == CallGetAgent

SpecAgent == InitAgent /\ [][NextAgent]_vars

\* ------------------------------------------------------------------------
\* Properties

Last(q) == q[Len(q)]

InLog(p, event) == \E i \in 1..Len(log[p]) : log[p][i] = event

\* Neither the directory nor a file is created or written between two states
\* (a file may be deleted).
NothingWritten(before, after) ==
  /\ after.dist = before.dist
  /\ after.bin \in { before.bin, NoFile }
  /\ after.gz \in { before.gz, NoFile }

\* C1: whenever the binary file exists when ensureBinaryFileExists is called,
\* the call returns with no request issued and no file created, written or
\* deleted, and the only thing run() does next is spawn the binary.
C1_ExistingBinarySkipsAcquisition ==
  \A p \in Procs :
    (existed[p].checked /\ existed[p].was) =>
      /\ requests[p] = << >>
      /\ downloads[p] = 0
      /\ streams[p] = NoStreams
      /\ fs = fs0
      /\ ~err[p].thrown
      /\ exitCode[p] = -1
      /\ pc[p] \in { "spawn", "spawned" }
      /\ pc[p] = "spawned" => spawned[p].file = BinaryFilePath

C1_Witness ==
  \E p \in Procs :
    /\ existed[p].checked /\ existed[p].was
    /\ fs0.bin.content = "partial"
    /\ pc[p] = "spawned"
    /\ spawned[p].file = BinaryFilePath

\* C2: an invocation that finds the binary absent starts download() exactly
\* once, and once download() has failed the invocation issues no request,
\* opens no stream and writes no file.
C2_SingleAcquisitionCycle ==
  /\ [](\A p \in Procs :
          /\ downloads[p] <= 1
          /\ (existed[p].checked /\ ~existed[p].was /\ pc[p] # "download")
               => downloads[p] = 1)
  /\ [][\A p \in Procs :
          err[p].thrown =>
            /\ requests'[p] = requests[p]
            /\ downloads'[p] = downloads[p]
            /\ \A s \in DOMAIN NoStreams :
                 streams'[p][s] = "open" => streams[p][s] = "open"
            /\ NothingWritten(fs, fs')]_vars

C2_Witness ==
  \E p \in Procs :
    /\ ~existed[p].was
    /\ err[p].thrown /\ err[p].stage = "decompress"
    /\ pc[p] = "exited"
    /\ downloads[p] = 1
    /\ Len(requests[p]) = 1

\* C3 as stated: after a failed acquisition, when the process has exited,
\* neither the binary file nor the compressed file is in the cache directory.
C3_Claimed ==
  \A p \in Procs :
    (err[p].thrown /\ pc[p] = "exited") => (fs.bin = NoFile /\ fs.gz = NoFile)

\* C3, amended: after a failed acquisition, when the process has exited, each
\* of the two files is absent unless its unlink was rejected (the rejection is
\* swallowed and the file stays).
C3_CleanupBestEffort ==
  \A p \in Procs :
    (err[p].thrown /\ pc[p] = "exited") =>
      /\ fs.bin = NoFile \/ InLog(p, "unlink.bin.rejected")
      /\ fs.gz = NoFile \/ InLog(p, "unlink.gz.rejected")

C3_Witness ==
  \E p \in Procs :
    /\ err[p].thrown /\ err[p].stage = "decompress"
    /\ pc[p] = "exited"
    /\ InLog(p, "unlink.bin") /\ InLog(p, "unlink.gz")
    /\ fs.bin = NoFile /\ fs.gz = NoFile

\* The URL a Location header names, seen from the URL of the response that
\* carried it: an absolute URL stands for itself, an absolute path keeps the
\* response's protocol and host.
Expected(location, base) ==
  IF location.kind = "abs"
    THEN location.url
    ELSE MkUrl(base.protocol, base.host, location.path)

\* C4: every response but the last is a 301 or 302; each request after the
\* first goes to the Location of the response before it, resolved against that
\* response's URL; after N redirects and a 200, N+1 requests were issued and
\* createFetch has returned the response (download() goes on to the files).
C4_RedirectChain ==
  \A p \in Procs :
    LET n == Len(responses[p]) IN
    /\ Len(requests[p]) \in { n, n + 1 }
    /\ requests[p] # << >> => requests[p][1].url = StartUrl
    /\ \A i \in 1..n :
         /\ responses[p][i].url = requests[p][i].url
         /\ i < n => responses[p][i].status \in { 301, 302 }
         /\ (responses[p][i].status \in { 301, 302 }
               /\ responses[p][i].location.kind \in { "abs", "path" }) =>
              /\ i = Len(requests[p]) =>
                   /\ pc[p] = "fetch"
                   /\ curUrl[p] = Expected(responses[p][i].location, requests[p][i].url)
              /\ i < Len(requests[p]) =>
                   requests[p][i + 1].url
                     = Expected(responses[p][i].location, requests[p][i].url)
    /\ (n > 0 /\ Last(responses[p]).status = 200) =>
         /\ Len(requests[p]) = n
         /\ err[p].stage \notin { "request", "location", "status" }
         /\ pc[p] \notin { "run", "download", "fetch", "await" }

C4_Witness ==
  \E p \in Procs :
    /\ Len(responses[p]) = MaxHops + 1
    /\ Len(requests[p]) = MaxHops + 1
    /\ Last(responses[p]).status = 200
    /\ responses[p][1].status = 302
    /\ responses[p][MaxHops].location.kind = "path"
    /\ requests[p][MaxHops + 1].url = MkUrl("http:", "cdn", "/mirror")
    /\ pc[p] = "mkdir"

\* C5: when the last response is neither a 301/302 nor a 2xx, createFetch has
\* thrown an error carrying that status, and the invocation has created
\* neither the directory nor a file; at the moment of the failure the cache
\* directory is as the invocation found it.
C5_BadStatusWritesNothing ==
  \A p \in Procs :
    LET n == Len(responses[p]) IN
    (n > 0 /\ Last(responses[p]).status \notin { 301, 302 }
           /\ ~(Last(responses[p]).status \in 200..299)) =>
      /\ err[p] = MkErr(FALSE, Last(responses[p]).status, "status")
      /\ streams[p] = NoStreams
      /\ NothingWritten(fs0, fs)
      /\ pc[p] = "unlinkBinary" => fs = fs0

C5_Witness ==
  \E p \in Procs :
    /\ Len(responses[p]) = 2
    /\ Last(responses[p]).status = 307
    /\ err[p].status = 307
    /\ pc[p] = "unlinkBinary"
    /\ fs = fs0

\* C6: once acquisition has failed the binary is never spawned, the only exit
\* status is 1, and the invocation does exit with status 1.
C6_FailureExitsWithoutSpawn ==
  /\ [](\A p \in Procs :
          err[p].thrown =>
            /\ spawned[p] = NoSpawn
            /\ pc[p] \notin { "spawn", "spawned" }
            /\ exitCode[p] \in { -1, 1 }
            /\ pc[p] = "exited" => exitCode[p] = 1)
  /\ \A p \in Procs : err[p].thrown ~> (pc[p] = "exited" /\ exitCode[p] = 1)

C6_Witness ==
  \E p \in Procs :
    /\ err[p].thrown /\ err[p].stage = "chmod"
    /\ pc[p] = "exited"
    /\ exitCode[p] = 1
    /\ spawned[p] = NoSpawn

\* The permission digits of a mode: special bits, owner, group, others.
ModeDigits(m) ==
  [special |-> (m \div 512) % 8, owner |-> (m \div 64) % 8,
   group |-> (m \div 8) % 8, others |-> m % 8]

\* C7 as stated: the mode passed to chmod after a successful decompression is
\* rwxr-xr-x: owner 7, group 5, others 5, and no other bit.
C7_Claimed ==
  \A p \in Procs :
    chmodArg[p] # -1 =>
      /\ chmodArg[p] \div 4096 = 0
      /\ ModeDigits(chmodArg[p]) = [special |-> 0, owner |-> 7, group |-> 5, others |-> 5]

\* C8 as stated: an invocation that failed on the network (the request, the
\* status of the response, the body) has printed the help message when it
\* exits; one that failed otherwise has printed the raw error.
C8_Claimed ==
  \A p \in Procs :
    (err[p].thrown /\ pc[p] = "exited") =>
      IF err[p].stage \in { "request", "status", "body" }
        THEN InLog(p, "help") /\ exitCode[p] = 1
        ELSE InLog(p, "console.error") /\ ~InLog(p, "help")

\* What the decision table calls an http-style and a SOCKS address.
HttpStyle(v) == v \in { ProxyHttp, ProxyHttpUpper }
SocksStyle(v) == v = ProxySocks

\* The value of a variable that has a lowercase and an uppercase spelling.
Effective(lower, upper) == IF lower # ProxyUnset THEN lower ELSE upper

NoSchemeVariable ==
  /\ env.http_proxy = ProxyUnset /\ env.HTTP_PROXY = ProxyUnset
  /\ env.https_proxy = ProxyUnset /\ env.HTTPS_PROXY = ProxyUnset

\* The decision table of C9 over the values http, https and all of the three
\* proxy settings.
DecisionTable(http, https, all) ==
  LET u == selected.url
      a == selected.agent
  IN  u # NoUrl =>
        /\ (HttpStyle(http) /\ u.protocol = "http:") => a = NewAgent("HttpProxyAgent", http)
        /\ (NoSchemeVariable /\ SocksStyle(all)) => a = NewAgent("SocksProxyAgent", all)
        /\ (NoSchemeVariable /\ HttpStyle(all)) =>
             /\ u.protocol = "http:" => a = NewAgent("HttpProxyAgent", all)
             /\ u.protocol = "https:" => a = NewAgent("HttpsProxyAgent", all)
        /\ (NoSchemeVariable /\ all = ProxyUnset) => a = NoAgent

\* C9 as stated: the table read on HTTP_PROXY and ALL_PROXY as named.
C9_Claimed == DecisionTable(env.HTTP_PROXY, env.HTTPS_PROXY, env.ALL_PROXY)

\* C9, amended: the table holds when each variable is read as its lowercase
\* spelling if that is non-empty and as its uppercase spelling otherwise: an
\* http-style HTTP proxy and an http target give an HTTP agent with that
\* address; with no scheme-specific variable, a SOCKS catch-all gives a SOCKS
\* agent for every scheme, an http-style catch-all gives an HTTP agent for http
\* and an HTTPS agent for https, and no catch-all gives no agent.
C9_DecisionTable ==
  DecisionTable(Effective(env.http_proxy, env.HTTP_PROXY),
                Effective(env.https_proxy, env.HTTPS_PROXY),
                Effective(env.all_proxy, env.ALL_PROXY))

C9_Witness ==
  /\ selected.url.protocol = "https:"
  /\ NoSchemeVariable
  /\ env.all_proxy = ProxyHttpUpper
  /\ env.ALL_PROXY = ProxySocks
  /\ selected.agent = NewAgent("HttpsProxyAgent", ProxyHttpUpper)

\* The scheme-specific setting for the URL getAgent was asked about.
SchemeValue ==
  IF selected.url.protocol = "http:" THEN Effective(env.http_proxy, env.HTTP_PROXY)
  ELSE Effective(env.https_proxy, env.HTTPS_PROXY)

CatchAllValue == Effective(env.all_proxy, env.ALL_PROXY)

\* C10 as stated: for an http or https target whose scheme-specific variable
\* has any non-empty value, the agent comes from that value (or there is none),
\* never from the catch-all.
C10_Claimed ==
  (selected.url.protocol \in { "http:", "https:" } /\ SchemeValue # ProxyUnset) =>
    selected.agent.proxy \in { SchemeValue, ProxyUnset }

\* C10, amended: for an http or https target whose scheme-specific variable
\* begins with http or socks (in any case), the agent is built from that value
\* whatever the catch-all holds; the agent comes from the catch-all only when
\* the scheme-specific variable is unset or empty in both spellings, or holds a
\* value that begins with neither.
C10_SchemeSpecificPriority ==
  LET a == selected.agent
      forHttp == selected.url.protocol = "http:"
  IN  selected.url.protocol \in { "http:", "https:" } =>
        /\ HttpStyle(SchemeValue) =>
             a = NewAgent(IF forHttp THEN "HttpProxyAgent" ELSE "HttpsProxyAgent", SchemeValue)
        /\ SocksStyle(SchemeValue) => a = NewAgent("SocksProxyAgent", SchemeValue)
        /\ (a # NoAgent /\ a.proxy # SchemeValue) =>
             /\ SchemeValue \in { ProxyUnset, ProxyBare }
             /\ a.proxy = CatchAllValue
        /\ SchemeValue \in { ProxyUnset, ProxyBare } => a.proxy \in { CatchAllValue, ProxyUnset }

C10_Witness ==
  /\ selected.url.protocol = "https:"
  /\ env.https_proxy = ProxySocks
  /\ env.HTTPS_PROXY = ProxyHttp
  /\ env.ALL_PROXY = ProxyHttpUpper
  /\ selected.agent = NewAgent("SocksProxyAgent", ProxySocks)

\* ------------------------------------------------------------------------
\* binaryFilename as a function of what the runtime reports (SpecNames)

\* How many times the getter is evaluated.
MaxCalls == 2

InitNames ==
  /\ env \in { e \in RunEnvs : e.HTTP_PROXY = ProxyUnset /\ e.ALL_PROXY = ProxyUnset }
  /\ server = "finite"
  /\ resolver \in [runtime : Runtimes, calls : { 0 }, binaryFilename : { "none" }]
  /\ InitProc({}, { [dist |-> FALSE, bin |-> NoFile, gz |-> NoFile] })

\* An evaluation of this.binaryFilename, lines 48-54.
GetBinaryFilename ==
  /\ resolver.calls < MaxCalls
  /\ resolver' = [resolver EXCEPT !.calls = @ + 1,
                                  !.binaryFilename = binaryFilename(resolver.runtime)]
  /\ UNCHANGED << env, fs, fs0, pc, curUrl, requests, responses, streams, err, log,
                  existed, downloads, chmodArg, exitCode, spawned, selected, server >>

NextNames == GetBinaryFilename

SpecNames == InitNames /\ [][NextNames]_vars

\* C11: after one evaluation and after two, binaryFilename is
\* 'toml-test-v{version}-{P}-{A}', followed by '.ext' exactly when P is
\* 'windows', where P is 'windows' for platform win32 and the platform itself
\* otherwise, and A is 'amd64' for arch x64 and the arch itself otherwise.
C11_BinaryFilename ==
  LET r == resolver.runtime
      P == IF r.platform = "win32" THEN "windows" ELSE r.platform
      A == IF r.arch = "x64" THEN "amd64" ELSE r.arch
      ext == IF P = "windows" THEN ".ext" ELSE ""
  IN  resolver.calls >= 1 =>
        /\ resolver.binaryFilename = "toml-test-v" \o r.version \o "-" \o P \o "-" \o A \o ext
        /\ r = [version |-> "1.5.0", platform |-> "win32", arch |-> "x64"]
             => resolver.binaryFilename = "toml-test-v1.5.0-windows-amd64.ext"
        /\ r = [version |-> "1.4.0", platform |-> "linux", arch |-> "arm64"]
             => resolver.binaryFilename = "toml-test-v1.4.0-linux-arm64"
        /\ r = [version |-> "1.4.0", platform |-> "darwin", arch |-> "x64"]
             => resolver.binaryFilename = "toml-test-v1.4.0-darwin-amd64"

C11_Witness ==
  /\ resolver.calls = MaxCalls
  /\ resolver.runtime = [version |-> "1.5.0", platform |-> "win32", arch |-> "arm64"]
  /\ resolver.binaryFilename = "toml-test-v1.5.0-windows-arm64.ext"

\* ------------------------------------------------------------------------
\* C12: the child is spawned on the binary file path with exactly the
\* elements of process.argv after the first two, in their original order, and
\* with its standard streams inherited from the parent.
C12_SpawnArguments ==
  \A p \in Procs :
    spawned[p] # NoSpawn =>
      LET argv == spawned[p].argv
          args == spawned[p].args
      IN  /\ spawned[p].file = BinaryFilePath
          /\ spawned[p].stdio = "inherit"
          /\ Len(args) = Len(argv) - 2
          /\ \A i \in 1..Len(args) : args[i] = argv[i + 2]

C12_Witness ==
  \E p \in Procs :
    /\ pc[p] = "spawned"
    /\ spawned[p].argv = << "node", "cli.js", "a.toml", "-h" >>
    /\ spawned[p].args = << "a.toml", "-h" >>
    /\ downloads[p] = 1

\* ------------------------------------------------------------------------
\* The first position of an event in the log of p, 0 when it is not there.
Position(p, event) ==
  IF InLog(p, event)
  THEN CHOOSE i \in 1..Len(log[p]) :
         log[p][i] = event /\ \A j \in 1..(i - 1) : log[p][j] # event
  ELSE 0

\* The stages of one acquisition, in the order of the program text.
Stages == << "open.gz", "finish.gz", "decompress", "finish.bin", "chmod", "spawn" >>

\* The claim as stated: the compressed file's writer is closed when
\* decompression starts.
C13_Claimed ==
  \A p \in Procs :
    /\ streams[p].rs # "none" => streams[p].cws = "closed"
    /\ chmodArg[p] # -1 => streams[p].bws \in { "finished", "closed" }
    /\ (spawned[p] # NoSpawn /\ downloads[p] = 1) =>
         (InLog(p, "finish.bin") /\ InLog(p, "chmod"))

\* C13 (amended): within an invocation that acquires the binary, decompression
\* starts only after the compressed file's writer has finished (all data
\* written; its descriptor may still be open), chmod starts only after the
\* binary's writer has finished, the binary is spawned only after
\* decompression and chmod both succeeded, and the stages happen in the order
\* of the program text.
C13_StageOrder ==
  \A p \in Procs :
    /\ streams[p].rs # "none" =>
         (streams[p].cws \in { "finished", "closed" } /\ InLog(p, "finish.gz"))
    /\ chmodArg[p] # -1 =>
         (streams[p].bws \in { "finished", "closed" } /\ InLog(p, "finish.bin"))
    /\ (spawned[p] # NoSpawn /\ downloads[p] = 1) =>
         (InLog(p, "finish.bin") /\ InLog(p, "chmod") /\ ~err[p].thrown)
    /\ \A i, j \in 1..Len(Stages) :
         (i < j /\ InLog(p, Stages[j])) =>
           (downloads[p] = 1 => (InLog(p, Stages[i])
                                 /\ Position(p, Stages[i]) < Position(p, Stages[j])))

\* The binary was acquired and spawned, and the compressed file's descriptor
\* was still open all through decompression and chmod.
C13_Witness ==
  \E p \in Procs :
    /\ pc[p] = "spawned"
    /\ downloads[p] = 1
    /\ streams[p].cws = "finished"
    /\ streams[p].bws = "closed"

\* ------------------------------------------------------------------------
\* Two invocations at once on one cache directory (SpecConc)

\* Both invocations have been started, nothing is in the cache directory, no
\* proxy is configured and the server does not redirect.
InitConc ==
  /\ env \in { e \in RunEnvs : e.HTTP_PROXY = ProxyUnset /\ e.ALL_PROXY = ProxyUnset }
  /\ server = "direct"
  /\ resolver = NoResolver
  /\ InitProc(Procs, { [dist |-> FALSE, bin |-> NoFile, gz |-> NoFile] })

SpecConc == InitConc /\ [][Next]_vars

\* C14: whenever an invocation found the binary file present and went on to
\* spawn it, the file is completely decompressed and has had its mode set.
C14_Claimed ==
  \A p \in Procs :
    (existed[p].checked /\ existed[p].seen /\ pc[p] \in { "spawn", "spawned" }) =>
      (fs.bin.content = "complete" /\ fs.bin.mode = ModeBits(ChmodMode))

\* Somebody else is writing the file or has completed it: another invocation
\* has an open or finished writer on it.
WrittenByOther(p, field) ==
  \E q \in Procs \ { p } :
    /\ downloads[q] = 1
    /\ ~err[q].thrown
    /\ IF field = "bin" THEN streams[q].bws # "none" ELSE streams[q].cws # "none"

\* The failure cleanup of an invocation removes no file that the other is
\* writing or has completed.
C15_CleanupSparesOthers ==
  \A p \in Procs :
    /\ InLog(p, "unlink.bin") => ~WrittenByOther(p, "bin")
    /\ InLog(p, "unlink.gz") => ~WrittenByOther(p, "gz")

\* C15: of two invocations started together with the binary missing, at most
\* one downloads and decompresses, and the failure cleanup of an invocation
\* removes no file that the other is writing or has completed.
C15_Claimed ==
  /\ downloads[1] + downloads[2] <= 1
  /\ C15_CleanupSparesOthers

\* ------------------------------------------------------------------------
\* The agent the three run environments call for, by the scheme of the URL.
AgentOfScheme(protocol) ==
  IF env.HTTP_PROXY = ProxyHttp /\ env.HTTPS_PROXY = ProxySocks
    THEN IF protocol = "http:" THEN NewAgent("HttpProxyAgent", ProxyHttp)
         ELSE NewAgent("SocksProxyAgent", ProxySocks)
  ELSE IF env.ALL_PROXY = ProxyHttpUpper
    THEN IF protocol = "http:" THEN NewAgent("HttpProxyAgent", ProxyHttpUpper)
         ELSE NewAgent("HttpsProxyAgent", ProxyHttpUpper)
  ELSE NoAgent

\* C16: every request of a redirect chain is sent with the agent that getAgent
\* gives for the URL of that very request, so a hop that changes the scheme
\* changes to the proxy setting of the new scheme.
C16_AgentPerHop ==
  \A p \in Procs :
    \A i \in 1..Len(requests[p]) :
      LET r == requests[p][i]
      IN  /\ r.agent = getAgent(env, r.url)
          /\ r.agent = AgentOfScheme(r.url.protocol)

C16_Witness ==
  \E p \in Procs :
    /\ Len(requests[p]) >= 2
    /\ requests[p][1].url.protocol = "https:"
    /\ requests[p][1].agent = NewAgent("SocksProxyAgent", ProxySocks)
    /\ requests[p][2].url.protocol = "http:"
    /\ requests[p][2].agent = NewAgent("HttpProxyAgent", ProxyHttp)

\* ------------------------------------------------------------------------
\* A stream that was never created, or is closed, or has finished or ended and
\* is being destroyed by the runtime on its own.
Released(state) == state \in { "none", "finished", "ended", "closed" }

\* download() has returned or thrown into its caller.
DownloadLeft(p) ==
  /\ downloads[p] = 1
  /\ pc[p] \in { "spawn", "spawned", "unlinkBinary", "unlinkCompressed", "report",
                 "exit", "exited" }

\* C17: once decompress() has returned, and once download() has returned or
\* thrown, none of the streams they opened is still open.
C17_Claimed ==
  \A p \in Procs :
    /\ pc[p] = "chmod" =>
         (Released(streams[p].rs) /\ Released(streams[p].gunzip) /\ Released(streams[p].bws))
    /\ DownloadLeft(p) =>
         /\ Released(streams[p].cws)
         /\ Released(streams[p].rs)
         /\ Released(streams[p].gunzip)
         /\ Released(streams[p].bws)

\* ------------------------------------------------------------------------
\* Redirect chains that end and a server that always redirects (FairLoopSpec)

InitLoop ==
  /\ env \in { e \in RunEnvs : e.HTTP_PROXY = ProxyHttp }
  /\ server \in { "finite", "loop" }
  /\ resolver = NoResolver
  /\ InitProc({ 1 }, { [dist |-> FALSE, bin |-> NoFile, gz |-> NoFile] })

\* The invocation runs on: the existence check and the start of download()
\* are synchronous code, each fetch() is issued, and the server answers it (or
\* the request fails).
FairLoopSpec ==
  /\ InitLoop
  /\ [][Next]_vars
  /\ \A p \in Procs :
       /\ WF_vars(EnsureBinaryFileExists(p))
       /\ WF_vars(Download(p))
       /\ WF_vars(SendRequest(p))
       /\ WF_vars(Respond(p) \/ RequestFails(p))

FetchStage == { "fetch", "await" }

\* C18: createFetch keeps no count of hops. When the redirect chain is
\* finite, createFetch is always left in the end, with a response or with an
\* error. When the server answers every request with a 301 or 302 that can be
\* followed, the invocation never gets past createFetch (no directory or file
\* is made, no cleanup, no exit, no spawn) and sends a request again and again
\* without end.
C18_NoHopLimit ==
  /\ (server = "finite") => \A p \in Procs : (pc[p] \in FetchStage) ~> (pc[p] \notin FetchStage)
  /\ (server = "loop") =>
       /\ [](pc[1] \in { "run", "download" } \cup FetchStage)
       /\ [](exitCode[1] = -1 /\ spawned[1] = NoSpawn /\ fs = fs0 /\ ~err[1].thrown)
       /\ []<><<SendRequest(1)>>_vars

\* More requests than the histories keep have been sent to the server that
\* always redirects: the first request, for the start URL, is no longer among
\* the last MaxHops + 1.
C18_Witness ==
  /\ server = "loop"
  /\ pc[1] = "await"
  /\ Len(requests[1]) = MaxHops + 1
  /\ requests[1][1].url # StartUrl
  /\ Len(responses[1]) = MaxHops + 1

====
